---- MODULE Spec2Model ----
(***************************************************************************)
(* Dynatrace OpenTelemetry metrics exporter.                               *)
(*                                                                         *)
(* Spec              the batched delivery pipeline of                      *)
(*                   _DynatraceMetricsExporter (export / _send_lines)      *)
(*                   with the metric classifier of                         *)
(*                   _OTelDynatraceMetricsFactory.                         *)
(* SpecConfigured    the same for an exporter made with an endpoint and    *)
(*                   a token.                                              *)
(* SpecMalformed     the same given data points that are not well formed.  *)
(* SpecSerializer    DynatraceMetricsSerializer.serialize_records with its *)
(*                   dimension merge.                                      *)
(* SpecKey           _normalize_metric_key as a function of the raw key.   *)
(* SpecDimension     _normalize_dimension_key and                          *)
(*                   _normalize_dimension_value likewise.                  *)
(* SpecSingleRequest DynatraceMetricsExporter of metric/exporter.py.       *)
(* SpecTimestamp     the two conversions of nanoseconds to milliseconds.   *)
(* SpecHistogram     _get_histogram_min and _get_histogram_max.            *)
(* SpecPreference    the preferred temporalities and the factory.          *)
(*                                                                         *)
(* Text is a sequence of one-character strings.                            *)
(***************************************************************************)
EXTENDS FiniteSets, Integers, Sequences, TLC

VARIABLES
    \* ---- _DynatraceMetricsExporter ----
    chunk_size,      \* DynatraceMetricsApiConstants.payload_lines_limit()
    pc,              \* "idle" | "sending" | "done": position of export()
    metrics_data,    \* argument of the export call in progress / last made
    string_buffer,   \* the encoded lines of that call
    index,           \* loop variable of _send_lines
    posts,           \* POSTs issued by that call: [data, resp], in order
    result,          \* "NONE" | "SUCCESS" | "FAILURE" | "RAISED"
    previous_result, \* how the call before this one ended, "NONE" at first
    endpoint_url,    \* argument of __init__: <<>> for None, or <<text>>
    api_token,       \* argument of __init__: <<>> for None, or <<text>>
    _endpoint_url,   \* self._endpoint_url
    _headers,        \* self._headers
    \* ---- DynatraceMetricsSerializer ----
    default_dimensions, \* static dimensions given at configuration time
    oneagent_dims,      \* enrichment dimensions (OneAgent metadata)
    _prefix,            \* self._prefix
    _tags,              \* self._tags
    _is_delta_export,   \* self._is_delta_export: "None" | "True" | "False"
    stateful,           \* meter_provider.stateful
    records,            \* argument of the last serialize_records call
    serialized,         \* its return value, one entry per emitted line
    \* ---- _normalize_metric_key ----
    key,             \* raw key
    normalized,      \* <<>>, or the normalized key as the one entry
    \* ---- _normalize_dimension_key, _normalize_dimension_value ----
    dimension_key,        \* raw dimension key
    normalized_key,       \* <<>>, or its normalized form as the one entry
    dimension_value,      \* raw dimension value
    normalized_value,     \* <<>>, or its normalized form as the one entry
    \* ---- DynatraceMetricsExporter (metric/exporter.py) ----
    metric_records,  \* argument of the export call
    export_data,     \* "".join(string_buffer), one entry per line
    post,            \* <<>>, or the answer to the POST as the one entry
    export_result,   \* "NONE" | "SUCCESS" | "FAILURE"
    \* ---- nanoseconds to milliseconds ----
    time_unix_nano,  \* timestamp of a point, in nanoseconds
    milliseconds,    \* <<>>, or [by |-> conversion, ms |-> result]
    \* ---- _get_histogram_min, _get_histogram_max ----
    histogram_point, \* a HistogramDataPoint, <<>> when there is none
    estimates,       \* <<>>, or [min |-> ..., max |-> ...] as the one entry
    \* ---- preferred temporality ----
    instrument,      \* the kind of the instrument that is read
    collected,       \* <<>>, or the metric the reader hands over
    created          \* <<>>, or what create_metric made of its first point

configVars == <<endpoint_url, api_token, _endpoint_url, _headers>>
exporterVars == <<chunk_size, pc, metrics_data, string_buffer, index, posts,
                  result, previous_result, configVars>>
serializerVars == <<default_dimensions, oneagent_dims, _prefix, _tags,
                    _is_delta_export, stateful, records, serialized>>
keyVars == <<key, normalized>>
dimensionVars == <<dimension_key, normalized_key, dimension_value,
                   normalized_value>>
singleRequestVars == <<metric_records, export_data, post, export_result>>
timestampVars == <<time_unix_nano, milliseconds>>
histogramVars == <<histogram_point, estimates>>
preferenceVars == <<instrument, collected, created>>
furtherVars == <<histogramVars, preferenceVars>>
restVars == <<dimensionVars, singleRequestVars, timestampVars, furtherVars>>
vars == <<exporterVars, serializerVars, keyVars, restVars>>

-----------------------------------------------------------------------------
(* Bounds *)
MaxMetrics == 2        \* metrics in one export call
MaxChunkSize == 2      \* values tried for payload_lines_limit()
MaxMetricsAgain == 1   \* metrics in an export call that follows another
MaxRecords == 1        \* records in one serialize_records call
MaxKeyLen == 3         \* characters of a freely composed raw key
MaxOverlong == 1       \* characters by which a long raw key exceeds the limit
MaxMetricRecords == 2   \* records in one call of the single-request exporter
MaxBuckets == 3        \* buckets of a histogram whose min and max are estimated

-----------------------------------------------------------------------------
(* Text helpers *)

RECURSIVE Flatten(_)
Flatten(ss) == IF ss = <<>> THEN <<>> ELSE Head(ss) \o Flatten(Tail(ss))

\* the least index of s whose character is in S, 0 when there is none
FirstIndex(s, S) ==
    IF \E i \in 1..Len(s) : s[i] \in S
    THEN CHOOSE i \in 1..Len(s) :
             s[i] \in S /\ \A j \in 1..(i - 1) : s[j] \notin S
    ELSE 0

\* the greatest index of s whose character is in S, 0 when there is none
LastIndex(s, S) ==
    IF \E i \in 1..Len(s) : s[i] \in S
    THEN CHOOSE i \in 1..Len(s) :
             s[i] \in S /\ \A j \in (i + 1)..Len(s) : s[j] \notin S
    ELSE 0

\* the characters of s
Characters(s) == {s[i] : i \in 1..Len(s)}

\* str.split(sep): the pieces between the separators, empty pieces kept
RECURSIVE split(_, _)
split(s, sep) ==
    LET i == FirstIndex(s, {sep})
    IN  IF i = 0 THEN <<s>>
        ELSE <<SubSeq(s, 1, i - 1)>> \o split(SubSeq(s, i + 1, Len(s)), sep)

\* sep.join(ss)
RECURSIVE join(_, _)
join(ss, sep) ==
    IF ss = <<>> THEN <<>>
    ELSE IF Len(ss) = 1 THEN ss[1]
    ELSE ss[1] \o <<sep>> \o join(Tail(ss), sep)

\* filter(None, ss): the non-empty texts of ss
filter_None(ss) == SelectSeq(ss, LAMBDA x : x # <<>>)

\* re.compile("^[^ok]+").sub("", s)
re_sub_leading(s, ok) ==
    LET i == FirstIndex(s, ok)
    IN  IF i = 0 THEN <<>> ELSE SubSeq(s, i, Len(s))

\* re.compile("[^ok]+$").sub("", s)
re_sub_trailing(s, ok) == SubSeq(s, 1, LastIndex(s, ok))

\* re.compile("[^ok]+").sub(repl, s): every maximal run becomes one repl
RECURSIVE re_sub_runs(_, _, _)
re_sub_runs(s, ok, repl) ==
    LET i == FirstIndex(s, Characters(s) \ ok)
    IN  IF i = 0 THEN s
        ELSE SubSeq(s, 1, i - 1) \o repl
             \o re_sub_runs(re_sub_leading(SubSeq(s, i + 1, Len(s)), ok),
                            ok, repl)

LowerCase == {"a", "b", "c", "d", "e", "f", "g", "h", "i", "j", "k", "l", "m",
              "n", "o", "p", "q", "r", "s", "t", "u", "v", "w", "x", "y", "z"}
UpperCase == {"A", "B", "C", "D", "E", "F", "G", "H", "I", "J", "K", "L", "M",
              "N", "O", "P", "Q", "R", "S", "T", "U", "V", "W", "X", "Y", "Z"}
Digits == {"0", "1", "2", "3", "4", "5", "6", "7", "8", "9"}

-----------------------------------------------------------------------------
(* DynatraceMetricsSerializer: metric keys *)

\* the characters the three metric-key expressions do NOT match
re_mk_first_identifier_section_start == LowerCase \cup UpperCase \cup {"_"}
re_mk_identifier_section_start == LowerCase \cup UpperCase \cup Digits \cup {"_"}
re_mk_identifier_section_end ==
    LowerCase \cup UpperCase \cup Digits \cup {"_", "-"}
re_mk_invalid_characters ==
    LowerCase \cup UpperCase \cup Digits \cup {"_", "-"}

mk_max_length == 250

normalize_metric_key_section(section) ==
    LET s1 == re_sub_leading(section, re_mk_identifier_section_start)
        s2 == re_sub_trailing(s1, re_mk_identifier_section_end)
    IN  re_sub_runs(s2, re_mk_invalid_characters, <<"_">>)

\* "^[^a-zA-Z_]" in place of "^[^a-zA-Z_]+": one character deleted at most
normalize_metric_key_first_section_one_character(section) ==
    normalize_metric_key_section(
        IF section # <<>>
               /\ section[1] \notin re_mk_first_identifier_section_start
        THEN Tail(section)
        ELSE section)

normalize_metric_key_first_section(section) ==
    normalize_metric_key_section(
        re_sub_leading(section, re_mk_first_identifier_section_start))

\* map(f, rest) for f = normalize_metric_key_section
map_normalize_metric_key_section(rest) ==
    [i \in 1..Len(rest) |-> normalize_metric_key_section(rest[i])]

\* the sections joined as they are, the empty ones with the others
_normalize_metric_key_keeping_empty_sections(k) ==
    LET parts == split(k, ".")
        first == normalize_metric_key_first_section(Head(parts))
        rest == map_normalize_metric_key_section(Tail(parts))
    IN  IF first = <<>> THEN <<>>
        ELSE join(<<first>> \o rest, ".")

\* mk_max_length is declared by the class and not read here: the key is
\* split as it comes.
_normalize_metric_key(k) ==
    LET parts == split(k, ".")
        first == normalize_metric_key_first_section(Head(parts))
        rest == filter_None(map_normalize_metric_key_section(Tail(parts)))
    IN  IF first = <<>> THEN <<>>
        ELSE join(filter_None(<<first>> \o rest), ".")

-----------------------------------------------------------------------------
(* DynatraceMetricsSerializer: dimension keys and values *)

LowerSeq == <<"a", "b", "c", "d", "e", "f", "g", "h", "i", "j", "k", "l", "m",
              "n", "o", "p", "q", "r", "s", "t", "u", "v", "w", "x", "y", "z">>
UpperSeq == <<"A", "B", "C", "D", "E", "F", "G", "H", "I", "J", "K", "L", "M",
              "N", "O", "P", "Q", "R", "S", "T", "U", "V", "W", "X", "Y", "Z">>

\* str.lower
lower(s) ==
    [i \in 1..Len(s) |->
        IF s[i] \in UpperCase
        THEN LowerSeq[CHOOSE j \in 1..26 : UpperSeq[j] = s[i]]
        ELSE s[i]]

\* the characters the three dimension-key expressions do NOT match
re_dimension_key_start == LowerCase \cup {"_"}
re_dimension_key_end == LowerCase \cup Digits \cup {"_", "-", ":"}
re_dimension_key_invalid_chars == LowerCase \cup Digits \cup {"_", "-", ":"}

dimension_key_max_length == 100
dv_max_length == 250

\* s[:n]
Truncate(s, n) == IF Len(s) <= n THEN s ELSE SubSeq(s, 1, n)

normalize_dimension_key_section(section) ==
    LET s0 == lower(section)
        s1 == re_sub_leading(s0, re_dimension_key_start)
        s2 == re_sub_trailing(s1, re_dimension_key_end)
    IN  re_sub_runs(s2, re_dimension_key_invalid_chars, <<"_">>)

\* the sections joined as they are, the empty ones with the others
_normalize_dimension_key_keeping_empty_sections(k) ==
    LET sections == split(Truncate(k, dimension_key_max_length), ".")
    IN  join([i \in 1..Len(sections) |->
                 normalize_dimension_key_section(sections[i])], ".")

_normalize_dimension_key(k) ==
    LET sections == split(Truncate(k, dimension_key_max_length), ".")
        normalized_sections ==
            filter_None([i \in 1..Len(sections) |->
                            normalize_dimension_key_section(sections[i])])
    IN  join(normalized_sections, ".")

\* the characters of unicodedata category C that the inputs use
ControlCharacters == {"\\u0000", "\\u0007"}
NUL == "\\u0000"

_remove_control_characters(s) ==
    LET s0 == [i \in 1..Len(s) |->
                  IF s[i] \in ControlCharacters THEN NUL ELSE s[i]]
        \* the characters the three expressions do NOT match: all but NUL
        re_dv_cc == Characters(s0) \ {NUL}
        s1 == re_sub_leading(s0, re_dv_cc)
        s2 == re_sub_trailing(s1, re_dv_cc)
    IN  re_sub_runs(s2, re_dv_cc, <<"_">>)

\* "([= ,])": the backslash itself left as it is
re_dv_escape_chars_without_backslash == {"=", " ", ","}

re_dv_escape_chars == {"=", " ", ",", "\\"}

\* re.compile("([= ,\\])").sub(r"\\\g<1>", value)
RECURSIVE escape(_)
escape(value) ==
    LET i == FirstIndex(value, re_dv_escape_chars)
    IN  IF i = 0 THEN value
        ELSE SubSeq(value, 1, i - 1) \o <<"\\", value[i]>>
             \o escape(SubSeq(value, i + 1, Len(value)))

\* the value cut to its length after the escaping
_normalize_dimension_value_escaped_first(value) ==
    Truncate(escape(_remove_control_characters(value)), dv_max_length)

_normalize_dimension_value(value) ==
    escape(_remove_control_characters(Truncate(value, dv_max_length)))

\* A dict is the sequence of its items [k, v] in insertion order.
\* d[k] = v: a key already present keeps its place and takes the value
dict_set(d, k, v) ==
    IF \E i \in 1..Len(d) : d[i].k = k
    THEN [i \in 1..Len(d) |-> IF d[i].k = k THEN [k |-> k, v |-> v] ELSE d[i]]
    ELSE Append(d, [k |-> k, v |-> v])

\* the loop without its test of the key
RECURSIVE normalize_tags_loop_keeping_empty_keys(_, _)
normalize_tags_loop_keeping_empty_keys(items, tag_dict) ==
    IF items = <<>> THEN tag_dict
    ELSE normalize_tags_loop_keeping_empty_keys(Tail(items),
             dict_set(tag_dict, _normalize_dimension_key(Head(items).k),
                      _normalize_dimension_value(Head(items).v)))

\* the loop of _normalize_tags over tags.items()
RECURSIVE normalize_tags_loop(_, _)
normalize_tags_loop(items, tag_dict) ==
    IF items = <<>> THEN tag_dict
    ELSE LET k == _normalize_dimension_key(Head(items).k)
         IN  normalize_tags_loop(Tail(items),
                 IF k # <<>>
                 THEN dict_set(tag_dict, k,
                               _normalize_dimension_value(Head(items).v))
                 ELSE tag_dict)

_normalize_tags(tags) == normalize_tags_loop(tags, <<>>)

\* the second loop of _make_unique_dimensions: the tags go in as they are
RECURSIVE overwrite_loop(_, _)
overwrite_loop(items, dims_map) ==
    IF items = <<>> THEN dims_map
    ELSE overwrite_loop(Tail(items),
                        dict_set(dims_map, Head(items).k, Head(items).v))

_make_unique_dimensions(labels, tags) ==
    overwrite_loop(tags, normalize_tags_loop(labels, <<>>))

\* OneAgentMetadataEnricher.add_oneagent_metadata_to_tags, applied to the
\* parsed metadata: tags[key] = value for each of its items
add_oneagent_metadata_to_tags(tags, parsed_metadata) ==
    overwrite_loop(parsed_metadata, tags)

-----------------------------------------------------------------------------
(* Numbers.  A Python number is held as a reduced fraction n/d, d > 0;     *)
(* kind tells a number from None, +inf, -inf and from the exception a      *)
(* computation raised instead of returning one.                            *)

RECURSIVE GCD(_, _)
GCD(a, b) == IF b = 0 THEN a ELSE GCD(b, a % b)

Abs(x) == IF x < 0 THEN -x ELSE x

Rat(n, d) ==
    LET g == GCD(Abs(n), Abs(d))
        sgn == IF d < 0 THEN -1 ELSE 1
    IN  [kind |-> "num", n |-> sgn * (n \div g), d |-> sgn * (d \div g)]

Int2Num(i) == [kind |-> "num", n |-> i, d |-> 1]
PyNone == [kind |-> "None", n |-> 0, d |-> 1]
PosInf == [kind |-> "inf", n |-> 0, d |-> 1]
NegInf == [kind |-> "-inf", n |-> 0, d |-> 1]
NaN == [kind |-> "nan", n |-> 0, d |-> 1]
ZeroDivisionError == [kind |-> "ZeroDivisionError", n |-> 0, d |-> 1]
IndexError == [kind |-> "IndexError", n |-> 0, d |-> 1]

IsError(x) == x.kind \in {"ZeroDivisionError", "IndexError"}

\* math.isfinite(x) for x a number, +inf or -inf
isfinite(x) == x.kind = "num"

\* a < b for numbers, +inf, -inf and nan: nan is less than nothing and
\* nothing is less than nan
Less(a, b) ==
    IF a.kind = "nan" \/ b.kind = "nan" THEN FALSE
    ELSE IF a.kind = "num" /\ b.kind = "num" THEN a.n * b.d < b.n * a.d
    ELSE \/ a.kind = "-inf" /\ b.kind # "-inf"
         \/ b.kind = "inf" /\ a.kind # "inf"

\* a / b for a float or int a and an int b >= 0
TrueDiv(a, b) ==
    IF b = 0 THEN ZeroDivisionError
    ELSE IF a.kind # "num" THEN a
    ELSE Rat(a.n, a.d * b)

\* seq[i] for a Python index i >= 0
GetItem(seq, i) == IF i + 1 \in 1..Len(seq) THEN Int2Num(seq[i + 1]) ELSE IndexError

\* the second argument whatever the first
py_max_second_argument(a, b) == IF IsError(a) THEN a ELSE b

\* max(a, b): the first argument unless the second beats it; evaluating an
\* argument that raised raises, the first one first
py_max(a, b) == IF IsError(a) THEN a ELSE IF IsError(b) THEN b
                ELSE IF Less(a, b) THEN b ELSE a

\* min(a, b), likewise
py_min(a, b) == IF IsError(a) THEN a ELSE IF IsError(b) THEN b
                ELSE IF Less(b, a) THEN b ELSE a

RECURSIVE SumSeq(_)
SumSeq(s) == IF s = <<>> THEN 0 ELSE Head(s) + SumSeq(Tail(s))

-----------------------------------------------------------------------------
(* _histogram_utils *)

\* the last bucket given its bound and never the mean
_get_histogram_max_bound_in_last_bucket(histogram) ==
    IF histogram.max.kind # "None" /\ isfinite(histogram.max)
    THEN histogram.max
    ELSE IF Len(histogram.bucket_counts) = 1
    THEN IF histogram.bucket_counts[1] > 0
         THEN TrueDiv(histogram.sum, histogram.count)
         ELSE histogram.sum
    ELSE LET last_element_index == Len(histogram.bucket_counts) - 1
             hits == {i \in 0..last_element_index :
                         histogram.bucket_counts[i + 1] > 0}
         IN  IF hits = {} THEN histogram.sum
             ELSE LET idx == CHOOSE i \in hits : \A j \in hits : j <= i
                  IN  IF idx = last_element_index
                      THEN GetItem(histogram.explicit_bounds, idx - 1)
                      ELSE GetItem(histogram.explicit_bounds, idx)

_get_histogram_max(histogram) ==
    IF histogram.max.kind # "None" /\ isfinite(histogram.max)
    THEN histogram.max
    ELSE IF Len(histogram.bucket_counts) = 1
    THEN IF histogram.bucket_counts[1] > 0
         THEN TrueDiv(histogram.sum, histogram.count)
         ELSE histogram.sum
    ELSE LET last_element_index == Len(histogram.bucket_counts) - 1
             \* the indexes range(last_element_index, -1, -1) stops at
             hits == {i \in 0..last_element_index :
                         histogram.bucket_counts[i + 1] > 0}
         IN  IF hits = {} THEN histogram.sum
             ELSE LET idx == CHOOSE i \in hits : \A j \in hits : j <= i
                  IN  IF idx = last_element_index
                      THEN py_max(GetItem(histogram.explicit_bounds, idx - 1),
                                  TrueDiv(histogram.sum, histogram.count))
                      ELSE GetItem(histogram.explicit_bounds, idx)

\* the first bucket given its bound and never the mean
_get_histogram_min_bound_in_first_bucket(histogram) ==
    IF histogram.min.kind # "None" /\ isfinite(histogram.min)
    THEN histogram.min
    ELSE IF Len(histogram.bucket_counts) = 1
    THEN IF histogram.bucket_counts[1] > 0
         THEN TrueDiv(histogram.sum, histogram.count)
         ELSE histogram.sum
    ELSE LET hits == {i \in 0..(Len(histogram.bucket_counts) - 1) :
                         histogram.bucket_counts[i + 1] > 0}
         IN  IF hits = {} THEN histogram.sum
             ELSE LET idx == CHOOSE i \in hits : \A j \in hits : i <= j
                  IN  IF idx = 0
                      THEN GetItem(histogram.explicit_bounds, idx)
                      ELSE GetItem(histogram.explicit_bounds, idx - 1)

_get_histogram_min(histogram) ==
    IF histogram.min.kind # "None" /\ isfinite(histogram.min)
    THEN histogram.min
    ELSE IF Len(histogram.bucket_counts) = 1
    THEN IF histogram.bucket_counts[1] > 0
         THEN TrueDiv(histogram.sum, histogram.count)
         ELSE histogram.sum
    ELSE LET hits == {i \in 0..(Len(histogram.bucket_counts) - 1) :
                         histogram.bucket_counts[i + 1] > 0}
         IN  IF hits = {} THEN histogram.sum
             ELSE LET idx == CHOOSE i \in hits : \A j \in hits : i <= j
                  IN  IF idx = 0
                      THEN py_min(GetItem(histogram.explicit_bounds, idx),
                                  TrueDiv(histogram.sum, histogram.count))
                      ELSE GetItem(histogram.explicit_bounds, idx - 1)

-----------------------------------------------------------------------------
(* _OTelDynatraceMetricsFactory *)

\* what create_metric hands back: a metric built by one of the create_*
\* calls of DynatraceMetricsFactory, None, or an exception that is not a
\* MetricError and so leaves create_metric
NoMetric == [create |-> "None", name |-> <<>>, args |-> <<>>]
Raised(e) == [create |-> "raise", name |-> <<>>, args |-> <<e>>]
DtMetric(create, name, args) == [create |-> create, name |-> name, args |-> args]

_to_dynatrace_counter(metric, point) ==
    IF point.value_type = "float"
    THEN DtMetric("create_float_counter_delta", metric.name, <<point.value>>)
    ELSE IF point.value_type = "int"
    THEN DtMetric("create_int_counter_delta", metric.name, <<point.value>>)
    ELSE NoMetric

_to_dynatrace_gauge(metric, point) ==
    IF point.value_type = "float"
    THEN DtMetric("create_float_gauge", metric.name, <<point.value>>)
    ELSE IF point.value_type = "int"
    THEN DtMetric("create_int_gauge", metric.name, <<point.value>>)
    ELSE NoMetric

\* the temporality of a non-monotonic sum not looked at
_sum_to_dynatrace_metric_any_non_monotonic(metric, point) ==
    IF metric.data.is_monotonic
    THEN IF metric.data.aggregation_temporality # "DELTA"
         THEN NoMetric
         ELSE _to_dynatrace_counter(metric, point)
    ELSE _to_dynatrace_gauge(metric, point)

_sum_to_dynatrace_metric(metric, point) ==
    IF metric.data.is_monotonic
    THEN IF metric.data.aggregation_temporality # "DELTA"
         THEN NoMetric
         ELSE _to_dynatrace_counter(metric, point)
    ELSE IF metric.data.aggregation_temporality # "CUMULATIVE"
         THEN NoMetric
         ELSE _to_dynatrace_gauge(metric, point)

\* the count taken as the number of buckets
_histogram_to_dynatrace_metric_bucket_number(metric, point) ==
    IF metric.data.aggregation_temporality # "DELTA"
    THEN NoMetric
    ELSE LET mn == _get_histogram_min(point)
             mx == _get_histogram_max(point)
         IN  IF IsError(mn) THEN Raised(mn)
             ELSE IF IsError(mx) THEN Raised(mx)
             ELSE DtMetric("create_float_summary", metric.name,
                           <<mn, mx, point.sum,
                             Int2Num(Len(point.bucket_counts))>>)

_histogram_to_dynatrace_metric(metric, point) ==
    IF metric.data.aggregation_temporality # "DELTA"
    THEN NoMetric
    ELSE LET mn == _get_histogram_min(point)
             mx == _get_histogram_max(point)
         IN  IF IsError(mn) THEN Raised(mn)
             ELSE IF IsError(mx) THEN Raised(mx)
             ELSE DtMetric("create_float_summary", metric.name,
                           <<mn, mx, point.sum,
                             Int2Num(SumSeq(point.bucket_counts))>>)

\* a metric of a type the factory does not know handled as a gauge
create_metric_unknown_as_gauge(metric, point) ==
    IF metric.data.type = "Sum"
    THEN _sum_to_dynatrace_metric(metric, point)
    ELSE IF metric.data.type = "Histogram"
    THEN _histogram_to_dynatrace_metric(metric, point)
    ELSE _to_dynatrace_gauge(metric, point)

create_metric(metric, point) ==
    IF metric.data.type = "Sum"
    THEN _sum_to_dynatrace_metric(metric, point)
    ELSE IF metric.data.type = "Histogram"
    THEN _histogram_to_dynatrace_metric(metric, point)
    ELSE IF metric.data.type = "Gauge"
    THEN _to_dynatrace_gauge(metric, point)
    ELSE NoMetric

-----------------------------------------------------------------------------
(* _DynatraceMetricsExporter *)

\* DynatraceMetricsSerializer.serialize of dynatrace.metric.utils, as the
\* exporter uses it: one line for the metric, or a MetricError when its
\* key normalizes to nothing.  A line is its key and its value clause.
MetricError == [key |-> <<>>, form |-> "MetricError", values |-> <<>>]

serialize(dt_metric) ==
    LET metric_key == _normalize_metric_key(dt_metric.name)
    IN  IF metric_key = <<>> THEN MetricError
        ELSE IF dt_metric.create \in {"create_int_counter_delta",
                                      "create_float_counter_delta"}
        THEN [key |-> metric_key, form |-> "count,delta=",
              values |-> dt_metric.args]
        ELSE IF dt_metric.create \in {"create_int_gauge", "create_float_gauge"}
        THEN [key |-> metric_key, form |-> "gauge,",
              values |-> dt_metric.args]
        ELSE [key |-> metric_key, form |-> "gauge,min=,max=,sum=,count=",
              values |-> dt_metric.args]

\* the body of the innermost loop of export for one data point: the lines
\* it appends, and whether an exception left the loop
encode_point(metric, point) ==
    LET dt_metric == create_metric(metric, point)
    IN  IF dt_metric.create = "raise" THEN [raised |-> TRUE, lines |-> <<>>]
        ELSE IF dt_metric.create = "None"
        THEN [raised |-> FALSE, lines |-> <<>>]
        ELSE LET line == serialize(dt_metric)
             IN  IF line.form = "MetricError"
                 THEN [raised |-> FALSE, lines |-> <<>>]
                 ELSE [raised |-> FALSE, lines |-> <<line>>]

\* the (metric, data point) pairs in the order the nested loops visit them
RECURSIVE data_points_of(_)
data_points_of(metrics) ==
    IF metrics = <<>> THEN <<>>
    ELSE [i \in 1..Len(Head(metrics).data.data_points) |->
             [metric |-> Head(metrics),
              point |-> Head(metrics).data.data_points[i]]]
         \o data_points_of(Tail(metrics))

\* the loops left at the first data point that gives no line
RECURSIVE encode_all_until_rejected(_, _)
encode_all_until_rejected(pairs, buffer) ==
    IF pairs = <<>> THEN [raised |-> FALSE, lines |-> buffer]
    ELSE LET e == encode_point(Head(pairs).metric, Head(pairs).point)
         IN  IF e.raised THEN [raised |-> TRUE, lines |-> buffer]
             ELSE IF e.lines = <<>> THEN [raised |-> FALSE, lines |-> buffer]
             ELSE encode_all_until_rejected(Tail(pairs), buffer \o e.lines)

\* the loops of export over the pairs: string_buffer when they end, or
\* raised as soon as one data point raises
RECURSIVE encode_all(_, _)
encode_all(pairs, buffer) ==
    IF pairs = <<>> THEN [raised |-> FALSE, lines |-> buffer]
    ELSE LET e == encode_point(Head(pairs).metric, Head(pairs).point)
         IN  IF e.raised THEN [raised |-> TRUE, lines |-> buffer]
             ELSE encode_all(Tail(pairs), buffer \o e.lines)

\* "\n".join(metric_lines_chunk); a body is the sequence of its lines and
\* of the newlines between them
NL == [key |-> <<>>, form |-> "\n", values |-> <<>>]
serialized_records(metric_lines_chunk) ==
    join([i \in 1..Len(metric_lines_chunk) |-> <<metric_lines_chunk[i]>>], NL)

\* metric_lines[index:index + chunk_size + 1]: the slice one line too long
metric_lines_chunk_overlapping(metric_lines, i, size) ==
    SubSeq(metric_lines, i + 1,
           IF i + size + 1 < Len(metric_lines) THEN i + size + 1
           ELSE Len(metric_lines))

\* metric_lines[index:index + chunk_size]
metric_lines_chunk(metric_lines, i, size) ==
    SubSeq(metric_lines, i + 1,
           IF i + size < Len(metric_lines) THEN i + size ELSE Len(metric_lines))

\* The answers of session.post.  A transport error is an exception raised
\* by post itself.  Response.raise_for_status raises for the statuses 400
\* to 599 and for no other; resp.content.decode("utf-8") raises when the
\* body of the answer is not UTF-8.
StatusCodes == {200, 304, 500}
Responses ==
    [exception : {FALSE}, status_code : StatusCodes, utf8 : {TRUE}]
    \cup {[exception |-> FALSE, status_code |-> 200, utf8 |-> FALSE],
          [exception |-> TRUE, status_code |-> 0, utf8 |-> TRUE]}

\* An optional text argument is <<>> when it is None or not given and
\* <<text>> otherwise; it is true in a condition when it is a text that is
\* not empty.
Truthy(arg) == arg # <<>> /\ arg[1] # ""

DefaultEndpoint == "http://localhost:14499/metrics/ingest"

\* self._endpoint_url as __init__ sets it
init_endpoint_url(url) == IF Truthy(url) THEN url[1] ELSE DefaultEndpoint

\* the three headers of every exporter; a value is the sequence of the
\* texts concatenated to make it
BaseHeaders ==
    << [k |-> "Accept", v |-> <<"*/*; q=0">>],
       [k |-> "Content-Type", v |-> <<"text/plain; charset=utf-8">>],
       [k |-> "User-Agent", v |-> <<"opentelemetry-metric-python">>] >>

\* the token sent whenever one is given
init_headers_any_token(url, token) ==
    IF Truthy(token)
    THEN dict_set(BaseHeaders, "Authorization", <<"Api-Token ", token[1]>>)
    ELSE BaseHeaders

\* self._headers as __init__ sets it
init_headers(url, token) ==
    IF Truthy(token)
    THEN IF ~Truthy(url) THEN BaseHeaders
         ELSE dict_set(BaseHeaders, "Authorization",
                       <<"Api-Token ", token[1]>>)
    ELSE BaseHeaders

post_raises(resp) ==
    \/ resp.exception
    \/ resp.status_code >= 400 /\ resp.status_code < 600
    \/ ~resp.utf8

-----------------------------------------------------------------------------
(* The metrics an export call is given.  The resource and scope levels of  *)
(* MetricsData only nest the loops, so resource_metrics is held as the     *)
(* sequence of the metrics they contain.                                   *)

ValidName == <<"m", "y", ".", "i">>
InvalidName == <<".">>

NumberDataPoint(v, t) == [value |-> Int2Num(v), value_type |-> t]

HistogramDataPoint(counts, bounds, s, mn, mx) ==
    [bucket_counts |-> counts, explicit_bounds |-> bounds, sum |-> s,
     count |-> SumSeq(counts), min |-> mn, max |-> mx]

Sum(monotonic, temporality, points) ==
    [type |-> "Sum", is_monotonic |-> monotonic,
     aggregation_temporality |-> temporality, data_points |-> points]

Gauge(points) ==
    [type |-> "Gauge", is_monotonic |-> FALSE,
     aggregation_temporality |-> "n/a", data_points |-> points]

Histogram(temporality, points) ==
    [type |-> "Histogram", is_monotonic |-> FALSE,
     aggregation_temporality |-> temporality, data_points |-> points]

ExponentialHistogram(points) ==
    [type |-> "ExponentialHistogram", is_monotonic |-> FALSE,
     aggregation_temporality |-> "DELTA", data_points |-> points]

Metric(name, data) == [name |-> name, data |-> data]

HistogramWithMinMax ==
    HistogramDataPoint(<<1, 2, 4, 5>>, <<0, 5, 10>>, Int2Num(87),
                       Int2Num(-3), Int2Num(12))
HistogramWithoutMinMax ==
    HistogramDataPoint(<<1, 2, 4, 5>>, <<0, 5, 10>>, Int2Num(87),
                       PosInf, NegInf)

Metrics ==
    { Metric(ValidName, Sum(TRUE, "DELTA", <<NumberDataPoint(1, "float"),
                                             NumberDataPoint(2, "int")>>)),
      Metric(ValidName, Sum(TRUE, "CUMULATIVE", <<NumberDataPoint(3, "int")>>)),
      Metric(ValidName, Sum(FALSE, "DELTA", <<NumberDataPoint(4, "int")>>)),
      Metric(ValidName, Sum(FALSE, "CUMULATIVE", <<NumberDataPoint(5, "int")>>)),
      Metric(ValidName, Gauge(<<NumberDataPoint(6, "float")>>)),
      Metric(ValidName, Histogram("DELTA", <<HistogramWithMinMax,
                                             HistogramWithoutMinMax>>)),
      Metric(ValidName, Histogram("CUMULATIVE", <<HistogramWithMinMax>>)),
      Metric(ValidName, ExponentialHistogram(<<NumberDataPoint(7, "int")>>)),
      Metric(InvalidName, Sum(TRUE, "DELTA", <<NumberDataPoint(8, "int")>>)) }

SeqsUpTo(S, n) == UNION {[1..k -> S] : k \in 0..n}

MetricsDatas == {[resource_metrics |-> ms] : ms \in SeqsUpTo(Metrics, MaxMetrics)}

-----------------------------------------------------------------------------
(* export and _send_lines *)

\* the variables of the other specifications, at rest
SerializerIdle ==
    /\ default_dimensions = <<>>
    /\ oneagent_dims = <<>>
    /\ _prefix = <<>>
    /\ _tags = <<>>
    /\ _is_delta_export = "None"
    /\ stateful = TRUE
    /\ records = <<>>
    /\ serialized = <<>>

KeyIdle ==
    /\ key = <<>>
    /\ normalized = <<>>

DimensionIdle ==
    /\ dimension_key = <<>>
    /\ normalized_key = <<>>
    /\ dimension_value = <<>>
    /\ normalized_value = <<>>

SingleRequestIdle ==
    /\ metric_records = <<>>
    /\ export_data = <<>>
    /\ post = <<>>
    /\ export_result = "NONE"

TimestampIdle ==
    /\ time_unix_nano = <<>>
    /\ milliseconds = <<>>

HistogramIdle ==
    /\ histogram_point = <<>>
    /\ estimates = <<>>

PreferenceIdle ==
    /\ instrument = "None"
    /\ collected = <<>>
    /\ created = <<>>

FurtherIdle == HistogramIdle /\ PreferenceIdle

RestIdle ==
    DimensionIdle /\ SingleRequestIdle /\ TimestampIdle /\ FurtherIdle

\* the exporter made with neither endpoint nor token
ConfigDefault ==
    /\ endpoint_url = <<>>
    /\ api_token = <<>>
    /\ _endpoint_url = init_endpoint_url(<<>>)
    /\ _headers = init_headers(<<>>, <<>>)

Init ==
    /\ ConfigDefault
    /\ chunk_size \in 1..MaxChunkSize
    /\ pc = "idle"
    /\ metrics_data = [resource_metrics |-> <<>>]
    /\ string_buffer = <<>>
    /\ index = 0
    /\ posts = <<>>
    /\ result = "NONE"
    /\ previous_result = "NONE"
    /\ SerializerIdle
    /\ KeyIdle
    /\ RestIdle

\* the lines a failed call did not deliver sent again by the next call
Export_resending(md) ==
    /\ \/ pc = "idle"
       \/ pc = "done" /\ Len(md.resource_metrics) <= MaxMetricsAgain
    /\ metrics_data' = md
    /\ previous_result' = result
    /\ posts' = <<>>
    /\ index' = 0
    /\ IF Len(md.resource_metrics) = 0
       THEN /\ string_buffer' = <<>>
            /\ result' = "SUCCESS"
            /\ pc' = "done"
       ELSE LET unsent == IF result = "FAILURE"
                          THEN SubSeq(string_buffer, index + 1,
                                      Len(string_buffer))
                          ELSE <<>>
                e == encode_all(data_points_of(md.resource_metrics), unsent)
            IN  /\ string_buffer' = e.lines
                /\ IF e.raised
                   THEN result' = "RAISED" /\ pc' = "done"
                   ELSE IF Len(e.lines) = 0
                   THEN result' = "SUCCESS" /\ pc' = "done"
                   ELSE result' = "NONE" /\ pc' = "sending"
    /\ UNCHANGED <<chunk_size, configVars, serializerVars, keyVars, restVars>>

\* export, from its call to its first POST, or to its return when it
\* sends nothing; the exporter is called again once a call has returned
Export(md) ==
    /\ \/ pc = "idle"
       \/ pc = "done" /\ Len(md.resource_metrics) <= MaxMetricsAgain
    /\ metrics_data' = md
    /\ previous_result' = result
    /\ posts' = <<>>
    /\ index' = 0
    /\ IF Len(md.resource_metrics) = 0
       THEN /\ string_buffer' = <<>>
            /\ result' = "SUCCESS"
            /\ pc' = "done"
       ELSE LET e == encode_all(data_points_of(md.resource_metrics), <<>>)
            IN  /\ string_buffer' = e.lines
                /\ IF e.raised
                   THEN result' = "RAISED" /\ pc' = "done"
                   ELSE IF Len(e.lines) = 0
                   THEN result' = "SUCCESS" /\ pc' = "done"
                   ELSE result' = "NONE" /\ pc' = "sending"
    /\ UNCHANGED <<chunk_size, configVars, serializerVars, keyVars, restVars>>

\* one round of the loop of _send_lines: the POST of the chunk at index and
\* its answer; the round that raises, or the last one, ends export
SendChunk(resp) ==
    /\ pc = "sending"
    /\ index < Len(string_buffer)
    /\ posts' = Append(posts,
                       [url |-> _endpoint_url,
                        data |-> serialized_records(
                                     metric_lines_chunk(string_buffer, index,
                                                        chunk_size)),
                        headers |-> _headers,
                        resp |-> resp])
    /\ IF post_raises(resp)
       THEN /\ result' = "FAILURE"
            /\ pc' = "done"
            /\ index' = index
       ELSE /\ index' = index + chunk_size
            /\ IF index + chunk_size < Len(string_buffer)
               THEN UNCHANGED <<result, pc>>
               ELSE result' = "SUCCESS" /\ pc' = "done"
    /\ UNCHANGED <<chunk_size, metrics_data, string_buffer, previous_result,
                   configVars, serializerVars, keyVars, restVars>>

Next ==
    \/ \E md \in MetricsDatas : Export(md)
    \/ \E resp \in Responses : SendChunk(resp)

Spec == Init /\ [][Next]_vars

\* The exporter made with an endpoint and a token that are each left out,
\* empty or given (SpecConfigured)
Endpoints ==
    { <<>>, <<"">>, <<"https://dynatrace.example/api/v2/metrics/ingest">> }
ApiTokens == { <<>>, <<"">>, <<"dt0c01.sample">> }

InitConfigured ==
    /\ endpoint_url \in Endpoints
    /\ api_token \in ApiTokens
    /\ _endpoint_url = init_endpoint_url(endpoint_url)
    /\ _headers = init_headers(endpoint_url, api_token)
    /\ chunk_size \in 1..MaxChunkSize
    /\ pc = "idle"
    /\ metrics_data = [resource_metrics |-> <<>>]
    /\ string_buffer = <<>>
    /\ index = 0
    /\ posts = <<>>
    /\ result = "NONE"
    /\ previous_result = "NONE"
    /\ SerializerIdle
    /\ KeyIdle
    /\ RestIdle

SpecConfigured == InitConfigured /\ [][Next]_vars

-----------------------------------------------------------------------------
(* Properties of the delivery pipeline (Spec) *)

\* what the specification calls a failed POST: a transport exception or a
\* status outside 200..299
FailedPost(resp) ==
    resp.exception \/ ~(resp.status_code >= 200 /\ resp.status_code < 300)

Returned == pc = "done" /\ result \in {"SUCCESS", "FAILURE"}

\* the lines carried by a POST body, the newlines between them left out
LinesOf(body) == SelectSeq(body, LAMBDA t : t.form # "\n")

SentLines == Flatten([i \in 1..Len(posts) |-> LinesOf(posts[i].data)])

\* the classifier as the specification words it: which data points of the
\* input are to give a line
Accepted(pair) ==
    /\ pair.metric.name # InvalidName
    /\ \/ /\ pair.metric.data.type = "Sum"
          /\ \/ /\ pair.metric.data.is_monotonic
                /\ pair.metric.data.aggregation_temporality = "DELTA"
             \/ /\ ~pair.metric.data.is_monotonic
                /\ pair.metric.data.aggregation_temporality = "CUMULATIVE"
       \/ pair.metric.data.type = "Gauge"
       \/ /\ pair.metric.data.type = "Histogram"
          /\ pair.metric.data.aggregation_temporality = "DELTA"

InputPairs == data_points_of(metrics_data.resource_metrics)
AcceptedPairs == SelectSeq(InputPairs, Accepted)

\* C1: export returns FAILURE if and only if some POST of the call returned
\* a status outside 2xx or raised a transport exception, and SUCCESS in
\* every other case.
C1_FailureIffFailedPost ==
    Returned =>
        (result = "FAILURE" <=>
            \E i \in 1..Len(posts) : FailedPost(posts[i].resp))

\* C2: when the POST of chunk k is the first to fail, exactly k POSTs are
\* issued: the chunks before it went out unchanged, chunk k is not sent
\* again and no later chunk is attempted.
C2_FirstFailureStopsDelivery ==
    \A k \in 1..Len(posts) :
        /\ posts[k].data = serialized_records(
               metric_lines_chunk(string_buffer, (k - 1) * chunk_size,
                                  chunk_size))
        /\ FailedPost(posts[k].resp) => Len(posts) = k

\* C3: a fully successful export of n lines with chunk size c issues
\* ceil(n/c) POSTs whose bodies, in send order, hold the lines in export
\* order, none lost, repeated or moved; every chunk has at most c lines and
\* every chunk but the last exactly c.
C3_ChunkingKeepsLines ==
    (Returned /\ result = "SUCCESS"
        /\ \A i \in 1..Len(posts) : ~FailedPost(posts[i].resp)) =>
        LET n == Len(string_buffer)
            c == chunk_size
        IN  /\ Len(posts) = (n + c - 1) \div c
            /\ SentLines = string_buffer
            /\ \A i \in 1..Len(posts) :
                   /\ Len(LinesOf(posts[i].data)) <= c
                   /\ i < Len(posts) => Len(LinesOf(posts[i].data)) = c

C3_Witness ==
    /\ Returned /\ result = "SUCCESS"
    /\ \A i \in 1..Len(posts) : ~FailedPost(posts[i].resp)
    /\ Len(posts) = 2
    /\ Len(string_buffer) = 3
    /\ chunk_size = 2

\* C4: an export call whose input gives no line (no resource metrics, or
\* every data point rejected) issues no POST and returns SUCCESS.
C4_NoLinesNoPost ==
    (pc # "idle" /\ AcceptedPairs = <<>>) =>
        /\ posts = <<>>
        /\ pc = "done"
        /\ result = "SUCCESS"

C4_Witness ==
    /\ pc = "done"
    /\ Len(InputPairs) = 2
    /\ AcceptedPairs = <<>>
    /\ posts = <<>>
    /\ result = "SUCCESS"

\* the lines a data point gives when it is exported alone
LinesAlone(pair) == encode_point(pair.metric, pair.point).lines

\* C5: a rejected data point gives no line and changes neither the result
\* of the call nor the lines of the other points: the lines to send are
\* the lines of the accepted points, in input order, and with every POST
\* answered well they are the lines sent and the call returns SUCCESS.
C5_RejectedPointsOnlyDropOut ==
    pc # "idle" =>
        /\ \A i \in 1..Len(InputPairs) :
               ~Accepted(InputPairs[i]) => LinesAlone(InputPairs[i]) = <<>>
        /\ string_buffer =
               Flatten([i \in 1..Len(AcceptedPairs) |->
                           LinesAlone(AcceptedPairs[i])])
        /\ Len(string_buffer) = Len(AcceptedPairs)
        /\ (pc = "done" /\ \A i \in 1..Len(posts) : ~post_raises(posts[i].resp))
               => (result = "SUCCESS" /\ SentLines = string_buffer)

C5_Witness ==
    /\ pc = "done" /\ result = "SUCCESS"
    /\ Len(InputPairs) = 3
    /\ ~Accepted(InputPairs[1])
    /\ Accepted(InputPairs[2]) /\ Accepted(InputPairs[3])
    /\ Len(SentLines) = 2

\* the form and the numbers of each line of the buffer
Clauses(lines) ==
    [i \in 1..Len(lines) |-> [form |-> lines[i].form, values |-> lines[i].values]]

OnlyOfType(type) ==
    /\ pc # "idle"
    /\ \A i \in 1..Len(InputPairs) :
           /\ InputPairs[i].metric.data.type = type
           /\ InputPairs[i].metric.name = ValidName

\* C6: a Sum data point gives a line exactly when the sum is monotonic with
\* Delta temporality, the clause then being count,delta=<value>, or
\* non-monotonic with Cumulative temporality, the clause then being
\* gauge,<value>.
SumClause(pair) ==
    IF /\ pair.metric.data.is_monotonic
       /\ pair.metric.data.aggregation_temporality = "DELTA"
    THEN << [form |-> "count,delta=", values |-> <<pair.point.value>>] >>
    ELSE IF /\ ~pair.metric.data.is_monotonic
            /\ pair.metric.data.aggregation_temporality = "CUMULATIVE"
    THEN << [form |-> "gauge,", values |-> <<pair.point.value>>] >>
    ELSE <<>>

C6_SumClassification ==
    OnlyOfType("Sum") =>
        Clauses(string_buffer) =
            Flatten([i \in 1..Len(InputPairs) |-> SumClause(InputPairs[i])])

C6_Witness ==
    /\ OnlyOfType("Sum")
    /\ Len(InputPairs) = 3
    /\ Len(string_buffer) = 3
    /\ string_buffer[1].form = "gauge,"
    /\ string_buffer[2].form = "count,delta="
    /\ string_buffer[3].form = "count,delta="

\* C7: a Histogram data point gives a line exactly when the temporality of
\* its metric is Delta; the clause is gauge,min=,max=,sum=,count= with the
\* sum of the point and the total of its bucket counts.
C7_HistogramClassification ==
    OnlyOfType("Histogram") =>
        LET delta == SelectSeq(InputPairs,
                LAMBDA p : p.metric.data.aggregation_temporality = "DELTA")
        IN  /\ Len(string_buffer) = Len(delta)
            /\ \A i \in 1..Len(delta) :
                   /\ string_buffer[i].form = "gauge,min=,max=,sum=,count="
                   /\ Len(string_buffer[i].values) = 4
                   /\ string_buffer[i].values[3] = delta[i].point.sum
                   /\ string_buffer[i].values[4] =
                          Int2Num(SumSeq(delta[i].point.bucket_counts))

C7_Witness ==
    /\ OnlyOfType("Histogram")
    /\ Len(InputPairs) = 3
    /\ Len(string_buffer) = 2
    /\ string_buffer[2].values =
           <<Int2Num(0), Int2Num(10), Int2Num(87), Int2Num(12)>>

-----------------------------------------------------------------------------
(* DynatraceMetricsSerializer.serialize_records *)

_determine_is_delta_export(meter_provider_stateful) ==
    IF ~meter_provider_stateful THEN "True" ELSE "False"

_get_serialize_func(aggregator, is_delta_export) ==
    IF aggregator.type = "SumAggregator"
    THEN IF is_delta_export = "True" THEN "_write_count_value_delta"
         ELSE "_write_count_value_absolute"
    ELSE IF aggregator.type = "MinMaxSumCountAggregator"
    THEN "_write_gauge_value"
    ELSE IF aggregator.type = "ValueObserverAggregator"
    THEN "_write_gauge_value"
    ELSE IF aggregator.type = "LastValueAggregator"
    THEN "_write_count_value_absolute"
    ELSE "None"

_get_metric_key(record, prefix) ==
    _normalize_metric_key(
        IF prefix # <<>> THEN prefix \o <<".">> \o record.instrument_name
        ELSE record.instrument_name)

\* the record written whatever its key
_write_record_key_unchecked(record, prefix, tags, is_delta_export) ==
    LET serialize_func == _get_serialize_func(record.aggregator, is_delta_export)
        metric_key == _get_metric_key(record, prefix)
    IN  IF serialize_func = "None" THEN <<>>
        ELSE << [key |-> metric_key,
                 dimensions |-> _make_unique_dimensions(record.labels, tags),
                 form |-> IF serialize_func = "_write_count_value_delta"
                          THEN " count,delta="
                          ELSE IF serialize_func = "_write_count_value_absolute"
                          THEN " count,"
                          ELSE " gauge,min=,max=,sum=,count=",
                 values |-> record.aggregator.checkpoint,
                 timestamp |-> record.aggregator.last_update_timestamp
                                   \div 1000000,
                 end |-> "\n"] >>

\* what _write_record appends to string_buffer for one record: nothing, or
\* the pieces of one line
_write_record(record, prefix, tags, is_delta_export) ==
    LET serialize_func == _get_serialize_func(record.aggregator, is_delta_export)
        metric_key == _get_metric_key(record, prefix)
    IN  IF serialize_func = "None" THEN <<>>
        ELSE IF metric_key = <<>> THEN <<>>
        ELSE << [key |-> metric_key,
                 dimensions |-> _make_unique_dimensions(record.labels, tags),
                 form |-> IF serialize_func = "_write_count_value_delta"
                          THEN " count,delta="
                          ELSE IF serialize_func = "_write_count_value_absolute"
                          THEN " count,"
                          ELSE " gauge,min=,max=,sum=,count=",
                 values |-> record.aggregator.checkpoint,
                 timestamp |-> record.aggregator.last_update_timestamp
                                   \div 1000000,
                 end |-> "\n"] >>

Dim(k, v) == [k |-> k, v |-> v]

StaticDimensions ==
    { <<>>,
      <<Dim(<<"a">>, <<"s">>)>>,
      <<Dim(<<"b">>, <<"s">>), Dim(<<"a">>, <<"s">>)>>,
      <<Dim(<<"#">>, <<"s">>), Dim(<<"b">>, <<>>)>> }

OneAgentDimensions ==
    { <<>>, <<Dim(<<"a">>, <<"e">>)>>, <<Dim(<<"c">>, <<"e">>)>> }

Labels ==
    { <<>>,
      <<Dim(<<"A">>, <<"p">>)>>,
      <<Dim(<<"b">>, <<"p">>), Dim(<<"A">>, <<"p">>)>>,
      <<Dim(<<"#">>, <<"p">>), Dim(<<"b">>, <<"p", " ">>)>> }

Aggregators ==
    { [type |-> "SumAggregator", checkpoint |-> <<10>>,
       last_update_timestamp |-> 5999999],
      [type |-> "MinMaxSumCountAggregator", checkpoint |-> <<1, 100, 111, 3>>,
       last_update_timestamp |-> 5999999],
      [type |-> "ValueObserverAggregator", checkpoint |-> <<2, 2, 2, 1>>,
       last_update_timestamp |-> 5999999],
      [type |-> "LastValueAggregator", checkpoint |-> <<20>>,
       last_update_timestamp |-> 5999999],
      [type |-> "HistogramAggregator", checkpoint |-> <<0>>,
       last_update_timestamp |-> 5999999] }

\* records of every aggregator type; the labels vary under the counter and
\* the summary aggregators, the name is invalid under the counter
MetricRecords ==
    { r \in [instrument_name : {ValidName, InvalidName}, labels : Labels,
             aggregator : Aggregators] :
        /\ r.labels # <<>> =>
               r.aggregator.type \in {"SumAggregator",
                                      "MinMaxSumCountAggregator"}
        /\ r.instrument_name = InvalidName =>
               r.labels = <<>> /\ r.aggregator.type = "SumAggregator" }

ExporterIdle ==
    /\ ConfigDefault
    /\ chunk_size = 1
    /\ pc = "idle"
    /\ metrics_data = [resource_metrics |-> <<>>]
    /\ string_buffer = <<>>
    /\ index = 0
    /\ posts = <<>>
    /\ result = "NONE"
    /\ previous_result = "NONE"

\* DynatraceMetricsSerializer(prefix, tags), the tags being the static
\* dimensions with the OneAgent metadata added to them
InitSerializer ==
    /\ default_dimensions \in StaticDimensions
    /\ oneagent_dims \in OneAgentDimensions
    /\ _prefix \in {<<>>, <<"p">>}
    /\ _tags = _normalize_tags(
                   add_oneagent_metadata_to_tags(default_dimensions,
                                                 oneagent_dims))
    /\ _is_delta_export = "None"
    /\ stateful = TRUE
    /\ records = <<>>
    /\ serialized = <<>>
    /\ ExporterIdle
    /\ KeyIdle
    /\ RestIdle

\* the flag determined anew by every call
serialize_records_recomputing(rs) ==
    LET is_delta_export == _determine_is_delta_export(stateful)
    IN  /\ _is_delta_export' = is_delta_export
        /\ records' = rs
        /\ serialized' = Flatten([i \in 1..Len(rs) |->
                              _write_record(rs[i], _prefix, _tags,
                                            is_delta_export)])
        /\ UNCHANGED <<default_dimensions, oneagent_dims, _prefix, _tags,
                       stateful, exporterVars, keyVars, restVars>>

serialize_records(rs) ==
    LET is_delta_export == IF _is_delta_export = "None"
                           THEN _determine_is_delta_export(stateful)
                           ELSE _is_delta_export
    IN  /\ _is_delta_export' = is_delta_export
        /\ records' = rs
        /\ serialized' = Flatten([i \in 1..Len(rs) |->
                              _write_record(rs[i], _prefix, _tags,
                                            is_delta_export)])
        /\ UNCHANGED <<default_dimensions, oneagent_dims, _prefix, _tags,
                       stateful, exporterVars, keyVars, restVars>>

\* the application turns the meter provider stateful or stateless
SetStateful(b) ==
    /\ stateful # b
    /\ stateful' = b
    /\ UNCHANGED <<default_dimensions, oneagent_dims, _prefix, _tags,
                   _is_delta_export, records, serialized, exporterVars,
                   keyVars, restVars>>

NextSerializer ==
    \/ \E rs \in SeqsUpTo(MetricRecords, MaxRecords) : serialize_records(rs)
    \/ \E b \in BOOLEAN : SetStateful(b)

SpecSerializer == InitSerializer /\ [][NextSerializer]_vars

-----------------------------------------------------------------------------
(* _normalize_metric_key as a function of the raw key (SpecKey) *)

MkCharacters == {"a", "A", "0", "_", "-", ".", "#"}

\* n times the character c
Repeat(c, n) == [i \in 1..n |-> c]

\* a..b, a., .a and 0.section
ExampleMetricKeys ==
    { <<"a", ".", ".", "b">>, <<"a", ".">>, <<".", "a">>,
      <<"0", ".", "s", "e", "c", "t", "i", "o", "n">> }

\* raw keys composed freely, and raw keys around the length limit: a run
\* of "a" between a first and a last character
RawMetricKeys ==
    SeqsUpTo(MkCharacters, MaxKeyLen)
    \cup ExampleMetricKeys
    \cup { h \o Repeat("a", n) \o t :
             h \in SeqsUpTo(MkCharacters, 1), t \in SeqsUpTo(MkCharacters, 1),
             n \in (mk_max_length - 2)..(mk_max_length + MaxOverlong) }

InitKey ==
    /\ key \in RawMetricKeys
    /\ normalized = <<>>
    /\ ExporterIdle
    /\ SerializerIdle
    /\ RestIdle

NormalizeMetricKey ==
    /\ normalized = <<>>
    /\ normalized' = <<_normalize_metric_key(key)>>
    /\ UNCHANGED <<key, exporterVars, serializerVars, restVars>>

NextKey == NormalizeMetricKey

SpecKey == InitKey /\ [][NextKey]_vars

-----------------------------------------------------------------------------
(* Properties of the serializer (SpecSerializer) *)

Keys(d) == {d[i].k : i \in 1..Len(d)}
KeySeq(d) == [i \in 1..Len(d) |-> d[i].k]
ValueOf(d, k) == d[CHOOSE i \in 1..Len(d) : d[i].k = k].v

\* the records of the last call that gave a line, in order
EmittingRecords ==
    SelectSeq(records,
              LAMBDA r : _write_record(r, _prefix, _tags, _is_delta_export)
                             # <<>>)

\* the three sources of dimensions, each normalized on its own
StaticNormalized == _normalize_tags(default_dimensions)
EnrichmentNormalized == _normalize_tags(oneagent_dims)
PointNormalized(labels) == _normalize_tags(labels)

\* C8: the merged dimensions of a line hold each normalized key once, with
\* the value of the highest-priority source that supplies it: static below
\* per-point attribute below enrichment.
C8_MergePriority ==
    \A n \in 1..Len(serialized) :
        LET dims == serialized[n].dimensions
            point == PointNormalized(EmittingRecords[n].labels)
        IN  /\ \A i, j \in 1..Len(dims) : dims[i].k = dims[j].k => i = j
            /\ Keys(dims) = Keys(StaticNormalized) \cup Keys(point)
                                \cup Keys(EnrichmentNormalized)
            /\ \A k \in Keys(dims) :
                   ValueOf(dims, k) =
                       IF k \in Keys(EnrichmentNormalized)
                       THEN ValueOf(EnrichmentNormalized, k)
                       ELSE IF k \in Keys(point) THEN ValueOf(point, k)
                       ELSE ValueOf(StaticNormalized, k)

\* C9: the dimensions of a line come in merge order: the static ones, then
\* the attributes of the point in the order of the point, then the
\* enrichment ones.
C9_MergeOrder ==
    \A n \in 1..Len(serialized) :
        KeySeq(serialized[n].dimensions) =
            KeySeq(overwrite_loop(EnrichmentNormalized,
                       overwrite_loop(
                           PointNormalized(EmittingRecords[n].labels),
                           StaticNormalized)))

\* the key of a record: the prefix, when there is one, and the name of the
\* instrument, joined by "." and normalized
KeyOf(record) ==
    _normalize_metric_key(IF _prefix # <<>>
                          THEN _prefix \o <<".">> \o record.instrument_name
                          ELSE record.instrument_name)

SupportedAggregators ==
    {"SumAggregator", "MinMaxSumCountAggregator", "ValueObserverAggregator",
     "LastValueAggregator"}

\* C11: a record whose metric key normalizes to the empty string leaves
\* nothing in the output: the lines are those of the records with a key
\* (and a supported aggregator), each whole, from its key to its line
\* terminator.
C11_EmptyKeyNothingWritten ==
    LET keyed == SelectSeq(records,
                     LAMBDA r : /\ KeyOf(r) # <<>>
                                /\ r.aggregator.type \in SupportedAggregators)
    IN  /\ Len(serialized) = Len(keyed)
        /\ \A n \in 1..Len(serialized) :
               /\ serialized[n].key = KeyOf(keyed[n])
               /\ serialized[n].key # <<>>
               /\ serialized[n].values = keyed[n].aggregator.checkpoint
               /\ serialized[n].end = "\n"

C11_Witness ==
    /\ _is_delta_export # "None"
    /\ Len(records) = 1
    /\ records[1].instrument_name = InvalidName
    /\ records[1].aggregator.type \in SupportedAggregators
    /\ serialized = <<>>

\* the normalized keys of the dimensions d that are not empty
NormalizedKeys(d) ==
    {_normalize_dimension_key(d[i].k) : i \in 1..Len(d)} \ {<<>>}

\* C15: a dimension whose key normalizes to the empty string is left out,
\* key and value, of the static dimensions and of the attributes of a
\* point alike, and a dimension with a key and an empty value is kept.
C15_EmptyKeyDimensionDropped ==
    /\ Keys(_tags) = NormalizedKeys(default_dimensions)
                         \cup NormalizedKeys(oneagent_dims)
    /\ Len(_tags) = Cardinality(Keys(_tags))
    /\ \A i \in 1..Len(default_dimensions) :
           LET k == _normalize_dimension_key(default_dimensions[i].k)
           IN  (/\ k # <<>>
                /\ default_dimensions[i].v = <<>>
                /\ k \notin NormalizedKeys(oneagent_dims))
                   => ValueOf(_tags, k) = <<>>
    /\ \A n \in 1..Len(serialized) :
           LET dims == serialized[n].dimensions
           IN  /\ Keys(dims) = Keys(_tags)
                       \cup NormalizedKeys(EmittingRecords[n].labels)
               /\ Len(dims) = Cardinality(Keys(dims))

C15_Witness ==
    /\ default_dimensions = <<Dim(<<"#">>, <<"s">>), Dim(<<"b">>, <<>>)>>
    /\ Len(serialized) = 1
    /\ records[1].labels = <<Dim(<<"#">>, <<"p">>), Dim(<<"b">>, <<"p", " ">>)>>
    /\ serialized[1].dimensions = <<Dim(<<"b">>, <<>>)>>

-----------------------------------------------------------------------------
(* Properties of the metric key (SpecKey) *)

\* C10: the raw key is cut to its first 250 characters before the sections
\* are processed, so no normalized key is longer than 250 characters.
C10_KeyTruncated ==
    normalized # <<>> =>
        /\ Len(normalized[1]) <= mk_max_length
        /\ normalized[1] = _normalize_metric_key(Truncate(key, mk_max_length))

\* C12: a section that normalizes to empty is dropped and the others are
\* joined by "."; a first section that normalizes to empty makes the whole
\* key empty.
C12_EmptySectionsDropped ==
    normalized # <<>> =>
        LET sections == split(key, ".")
            first == normalize_metric_key_first_section(sections[1])
            others == [i \in 1..(Len(sections) - 1) |->
                          normalize_metric_key_section(sections[i + 1])]
            kept == SelectSeq(others, LAMBDA x : x # <<>>)
        IN  /\ IF first = <<>> THEN normalized[1] = <<>>
               ELSE split(normalized[1], ".") = <<first>> \o kept
            /\ key = <<"a", ".", ".", "b">> =>
                   normalized[1] = <<"a", ".", "b">>
            /\ key = <<"a", ".">> => normalized[1] = <<"a">>
            /\ key = <<".", "a">> => normalized[1] = <<>>
            /\ key = <<"0", ".", "s", "e", "c", "t", "i", "o", "n">> =>
                   normalized[1] = <<>>

C12_Witness ==
    /\ key = <<"a", ".", ".", "b">>
    /\ normalized = << <<"a", ".", "b">> >>

\* C13: normalizing a normalized metric key leaves it as it is.
C13_MetricKeyIdempotent ==
    normalized # <<>> =>
        _normalize_metric_key(normalized[1]) = normalized[1]

C13_Witness ==
    /\ key = <<"0", "-", "a">>
    /\ normalized = << <<"a">> >>

-----------------------------------------------------------------------------
(* _normalize_dimension_key and _normalize_dimension_value as functions of  *)
(* the raw text (SpecDimension)                                             *)

BEL == "\\u0007"

DkCharacters == {"a", "A", "0", "_", "-", ":", ".", "#"}
DvCharacters == {"a", "=", " ", ",", "\\", "_", NUL, BEL}

\* raw keys composed freely, and raw keys around the length limit
RawDimensionKeys ==
    SeqsUpTo(DkCharacters, MaxKeyLen)
    \cup { Repeat("a", n) \o t :
             t \in SeqsUpTo(DkCharacters, 2),
             n \in (dimension_key_max_length - 2)
                       ..(dimension_key_max_length + MaxOverlong) }

\* raw values composed freely, and raw values around the length limit
RawDimensionValues ==
    SeqsUpTo(DvCharacters, MaxKeyLen)
    \cup { Repeat("a", n) \o t :
             t \in SeqsUpTo(DvCharacters, 2),
             n \in (dv_max_length - 2)..(dv_max_length + MaxOverlong) }

InitDimension ==
    /\ \/ dimension_key \in RawDimensionKeys /\ dimension_value = <<>>
       \/ dimension_key = <<>> /\ dimension_value \in RawDimensionValues
    /\ normalized_key = <<>>
    /\ normalized_value = <<>>
    /\ SingleRequestIdle
    /\ TimestampIdle
    /\ ExporterIdle
    /\ SerializerIdle
    /\ KeyIdle
    /\ FurtherIdle

NormalizeDimensionKey ==
    /\ normalized_key = <<>>
    /\ normalized_key' = <<_normalize_dimension_key(dimension_key)>>
    /\ UNCHANGED <<dimension_key, dimension_value, normalized_value,
                   singleRequestVars, timestampVars, exporterVars,
                   serializerVars, keyVars, furtherVars>>

NormalizeDimensionValue ==
    /\ normalized_value = <<>>
    /\ normalized_value' = <<_normalize_dimension_value(dimension_value)>>
    /\ UNCHANGED <<dimension_key, dimension_value, normalized_key,
                   singleRequestVars, timestampVars, exporterVars,
                   serializerVars, keyVars, furtherVars>>

NextDimension == NormalizeDimensionKey \/ NormalizeDimensionValue

SpecDimension == InitDimension /\ [][NextDimension]_vars

-----------------------------------------------------------------------------
(* Properties of the dimension keys and values (SpecDimension) *)

DkSectionStart == LowerCase \cup {"_"}
DkSectionCharacters == LowerCase \cup Digits \cup {"_", ":", "-"}

\* C14: a normalized dimension key is empty or is made of non-empty
\* sections joined by ".", each of characters a-z, 0-9, "_", ":" and "-"
\* only and beginning with a-z or "_".
C14_DimensionKeyGrammar ==
    normalized_key # <<>> =>
        \/ normalized_key[1] = <<>>
        \/ LET sections == split(normalized_key[1], ".")
           IN  \A i \in 1..Len(sections) :
                   /\ sections[i] # <<>>
                   /\ sections[i][1] \in DkSectionStart
                   /\ \A j \in 1..Len(sections[i]) :
                          sections[i][j] \in DkSectionCharacters

C14_Witness ==
    /\ dimension_key = <<"A", "#", "a">>
    /\ normalized_key = << <<"a", "_", "a">> >>

\* the runs of control characters of s deleted at both ends and each run
\* inside replaced by one "_"
StripControl(s) ==
    LET plain == {i \in 1..Len(s) : s[i] \notin ControlCharacters}
    IN  IF plain = {} THEN <<>>
        ELSE LET first == CHOOSE i \in plain : \A j \in plain : i <= j
                 last == CHOOSE i \in plain : \A j \in plain : j <= i
                 kept == SelectSeq([n \in 1..(last - first + 1) |-> first + n - 1],
                                   LAMBDA i : \/ i \in plain
                                              \/ (i - 1) \in plain)
             IN  [n \in 1..Len(kept) |->
                     IF kept[n] \in plain THEN s[kept[n]] ELSE "_"]

Reserved == {"=", " ", ",", "\\"}

\* C16: the normalized value is the first 250 characters of the raw value,
\* stripped of their control characters and then escaped, in that order:
\* its length is that of the stripped text plus one for each reserved
\* character in it, whatever the cut left out.
C16_TruncateStripEscape ==
    normalized_value # <<>> =>
        LET stripped == StripControl(Truncate(dimension_value, dv_max_length))
        IN  /\ normalized_value[1] = escape(stripped)
            /\ Len(normalized_value[1]) =
                   Len(stripped)
                   + Cardinality({i \in 1..Len(stripped) :
                                      stripped[i] \in Reserved})

C16_Witness ==
    /\ Len(dimension_value) = dv_max_length + 1
    /\ normalized_value # <<>>
    /\ Len(normalized_value[1]) = dv_max_length + 1
    /\ normalized_value[1][dv_max_length] = "\\"
    /\ normalized_value[1][dv_max_length + 1] = "="

\* the escape backslashes of s removed
RECURSIVE Unescape(_)
Unescape(s) ==
    LET i == FirstIndex(s, {"\\"})
    IN  IF i = 0 THEN s
        ELSE IF i = Len(s) THEN SubSeq(s, 1, i - 1)
        ELSE SubSeq(s, 1, i - 1) \o <<s[i + 1]>>
             \o Unescape(SubSeq(s, i + 2, Len(s)))

\* C17, as the claim states it: the normalized value without its escape
\* backslashes is the raw value without its control characters.
C17_UnescapeRecoversValue ==
    normalized_value # <<>> =>
        Unescape(normalized_value[1]) =
            SelectSeq(dimension_value, LAMBDA c : c \notin ControlCharacters)

\* C17, amended: the normalized value without its escape backslashes is
\* the first 250 characters of the raw value with the runs of control
\* characters deleted at both ends and replaced by one "_" inside.
C17_UnescapeRecoversStrippedPrefix ==
    normalized_value # <<>> =>
        Unescape(normalized_value[1]) =
            StripControl(Truncate(dimension_value, dv_max_length))

C17_Witness ==
    /\ dimension_value = <<"\\", NUL, "=">>
    /\ normalized_value = << <<"\\", "\\", "_", "\\", "=">> >>

-----------------------------------------------------------------------------
(* export given data points that are not well formed (SpecMalformed) *)

\* a histogram point whose count disagrees with its one bucket, and one
\* with more buckets than its bounds allow; neither carries min or max
HistogramCountZero ==
    [HistogramDataPoint(<<3>>, <<>>, Int2Num(6), PyNone, PyNone)
         EXCEPT !.count = 0]
HistogramBoundsMissing ==
    HistogramDataPoint(<<0, 2>>, <<>>, Int2Num(6), PyNone, PyNone)

MalformedMetrics ==
    { Metric(ValidName, Histogram("DELTA", <<HistogramCountZero>>)),
      Metric(ValidName, Histogram("DELTA", <<HistogramBoundsMissing>>)) }

MalformedMetricsDatas ==
    {[resource_metrics |-> ms] :
         ms \in SeqsUpTo(Metrics \cup MalformedMetrics, MaxMetrics)}

NextMalformed ==
    \/ \E md \in MalformedMetricsDatas : Export(md)
    \/ \E resp \in Responses : SendChunk(resp)

SpecMalformed == Init /\ [][NextMalformed]_vars

\* C18: an exception raised while one data point is converted or
\* serialized is caught for that point: export returns SUCCESS or FAILURE,
\* and the lines to send are those of all the other points.
C18_PointExceptionsCaught ==
    /\ pc = "done" => result \in {"SUCCESS", "FAILURE"}
    /\ pc # "idle" =>
           string_buffer =
               Flatten([i \in 1..Len(InputPairs) |->
                           LinesAlone(InputPairs[i])])

-----------------------------------------------------------------------------
(* DynatraceMetricsExporter of metric/exporter.py: all the records of a    *)
(* call in one POST (SpecSingleRequest)                                     *)

DynatraceMetricsExporter_get_serialize_func(aggregator) ==
    IF aggregator.type = "SumAggregator" THEN "_write_delta_value"
    ELSE IF aggregator.type = "MinMaxSumCountAggregator"
    THEN "_write_summary_value"
    ELSE IF aggregator.type = "ValueObserverAggregator"
    THEN "_write_summary_value"
    ELSE "None"

\* what _write_record appends for one record: nothing, or the pieces of
\* one line, the name and the labels written as they come
DynatraceMetricsExporter_write_record(record) ==
    LET serialize_func ==
            DynatraceMetricsExporter_get_serialize_func(record.aggregator)
    IN  IF serialize_func = "None" THEN <<>>
        ELSE << [key |-> record.instrument_name,
                 dimensions |-> record.labels,
                 form |-> IF serialize_func = "_write_delta_value"
                          THEN " count,delta="
                          ELSE " gauge,min=,max=,sum=,count=",
                 values |-> record.aggregator.checkpoint,
                 timestamp |-> record.aggregator.last_update_timestamp
                                   \div 1000000,
                 end |-> "\n"] >>

\* raise_for_status() is the one call of the with block
single_post_raises(resp) ==
    \/ resp.exception
    \/ resp.status_code >= 400 /\ resp.status_code < 600

InitSingleRequest ==
    /\ SingleRequestIdle
    /\ DimensionIdle
    /\ TimestampIdle
    /\ ExporterIdle
    /\ SerializerIdle
    /\ KeyIdle
    /\ FurtherIdle

\* export(metric_records); resp is the answer the POST gets when there is
\* one.  The except clause logs the exception and the method goes on to
\* its one return statement.
DynatraceMetricsExporter_export(rs, resp) ==
    /\ export_result = "NONE" \/ Len(rs) <= MaxMetricsAgain
    /\ LET data == Flatten([i \in 1..Len(rs) |->
                               DynatraceMetricsExporter_write_record(rs[i])])
       IN  /\ metric_records' = rs
           /\ export_data' = data
           /\ IF data = <<>>
              THEN /\ post' = <<>>
                   /\ export_result' = "SUCCESS"
              ELSE /\ post' = <<resp>>
                   /\ export_result' = IF single_post_raises(resp)
                                       THEN "SUCCESS"
                                       ELSE "SUCCESS"
    /\ UNCHANGED <<dimensionVars, timestampVars, exporterVars,
                   serializerVars, keyVars, furtherVars>>

NextSingleRequest ==
    \E rs \in SeqsUpTo(MetricRecords, MaxMetricRecords), resp \in Responses :
        DynatraceMetricsExporter_export(rs, resp)

SpecSingleRequest == InitSingleRequest /\ [][NextSingleRequest]_vars

\* C19: the single-request exporter reports failure when its POST returns
\* a status outside 2xx or raises a transport exception, and success only
\* when the POST returned 2xx or none was needed.
C19_SingleRequestReportsFailure ==
    export_result # "NONE" =>
        (export_result = "SUCCESS" <=>
            \/ post = <<>>
            \/ ~FailedPost(post[1]))

-----------------------------------------------------------------------------
(* Nanoseconds to milliseconds (SpecTimestamp).  A Python int of the size  *)
(* of a timestamp is held in three digits of base 1000000:                  *)
(* [high, mid, low] is (high * 1000000 + mid) * 1000000 + low; a number of  *)
(* milliseconds is held in two, [high, low].                                *)

Million == 1000000

\* t // 1000000
floordiv_1000000(t) == [high |-> t.high, low |-> t.mid]

\* q + 1
Successor(q) ==
    IF q.low + 1 < Million THEN [high |-> q.high, low |-> q.low + 1]
    ELSE [high |-> q.high + 1, low |-> 0]

\* 2^k in two digits, k <= 50
RECURSIVE PowerOfTwo(_)
PowerOfTwo(k) ==
    IF k = 0 THEN [high |-> 0, low |-> 1]
    ELSE LET h == PowerOfTwo(k - 1)
         IN  [high |-> 2 * h.high + (2 * h.low) \div Million,
              low |-> (2 * h.low) % Million]

LessEq(p, q) == p.high < q.high \/ (p.high = q.high /\ p.low <= q.low)

\* the exponent of the float nearest q: 2^e <= q < 2^(e+1), for q >= 1
Exponent(q) ==
    CHOOSE e \in 0..49 :
        /\ LessEq(PowerOfTwo(e), q)
        /\ ~LessEq(PowerOfTwo(e + 1), q)

\* int(t / 1000000).  The true division gives the float nearest to
\* q + low/1000000, where q = t // 1000000; a float of exponent e has 52
\* binary places less e after the point, so the quotient is rounded up to
\* q + 1 when 1 - low/1000000 <= 2^(e - 53), and int() of any other result
\* is q.
int_truediv_1000000(t) ==
    LET q == floordiv_1000000(t)
    IN  IF q.high = 0 /\ q.low = 0 THEN q
        ELSE LET shift == 53 - Exponent(q)
                 nearest == IF shift > 20 THEN 0 ELSE Million \div (2 ^ shift)
             IN  IF Million - t.low <= nearest THEN Successor(q) ELSE q

\* timestamps from 1970 to the end of the 64-bit range, with their last
\* six digits at both ends of the millisecond and near its end
TimesUnixNano ==
    [high : {0, 1, 17179, 1700000, 18446743},
     mid : {0, 869183, 869184, 999999},
     low : {0, 1, 499999, 500000, 999877, 999878, 999999}]

InitTimestamp ==
    /\ time_unix_nano \in TimesUnixNano
    /\ milliseconds = <<>>
    /\ DimensionIdle
    /\ SingleRequestIdle
    /\ ExporterIdle
    /\ SerializerIdle
    /\ KeyIdle
    /\ FurtherIdle

\* the timestamp the factory hands to the create_* calls
FactoryTimestamp ==
    /\ milliseconds = <<>>
    /\ milliseconds' = <<[by |-> "int(point.time_unix_nano / 1000000)",
                          ms |-> int_truediv_1000000(time_unix_nano)]>>
    /\ UNCHANGED <<time_unix_nano, dimensionVars, singleRequestVars,
                   exporterVars, serializerVars, keyVars, furtherVars>>

\* the timestamp _write_timestamp appends
WriteTimestamp ==
    /\ milliseconds = <<>>
    /\ milliseconds' = <<[by |-> "last_update_timestamp // 1000000",
                          ms |-> floordiv_1000000(time_unix_nano)]>>
    /\ UNCHANGED <<time_unix_nano, dimensionVars, singleRequestVars,
                   exporterVars, serializerVars, keyVars, furtherVars>>

NextTimestamp == FactoryTimestamp \/ WriteTimestamp

SpecTimestamp == InitTimestamp /\ [][NextTimestamp]_vars

\* C20: the timestamp of a line is floor(t / 1000000), t the nanoseconds of
\* the point: the milliseconds that contain t, never the next one.
C20_TimestampTruncates ==
    milliseconds # <<>> =>
        /\ milliseconds[1].ms.high = time_unix_nano.high
        /\ milliseconds[1].ms.low = time_unix_nano.mid

-----------------------------------------------------------------------------
(* The body of a POST (Spec) *)

\* the lines each followed by a newline
Terminated(lines) == Flatten([i \in 1..Len(lines) |-> <<lines[i], NL>>])

\* C21: the body of every POST is made of the lines of its chunk, each
\* followed by a newline, the last line of the chunk with the others.
C21_BodyLinesTerminated ==
    \A k \in 1..Len(posts) :
        posts[k].data =
            Terminated(metric_lines_chunk(string_buffer, (k - 1) * chunk_size,
                                          chunk_size))

-----------------------------------------------------------------------------
(* The value clause of a line (SpecSerializer) *)

\* the three forms of a value clause with the count of numbers each takes
WireForms ==
    { [form |-> " count,delta=", numbers |-> 1],
      [form |-> " gauge,", numbers |-> 1],
      [form |-> " gauge,min=,max=,sum=,count=", numbers |-> 4] }

\* C22: every line of the serializer has one value clause, of the form
\* count,delta=<number>, gauge,<number> or
\* gauge,min=<n>,max=<n>,sum=<n>,count=<n>, whatever the aggregator and
\* the delta or absolute mode.
C22_ValueClauseForms ==
    \A n \in 1..Len(serialized) :
        [form |-> serialized[n].form,
         numbers |-> Len(serialized[n].values)] \in WireForms

-----------------------------------------------------------------------------
(* The requests of a configured exporter (SpecConfigured) *)

\* an argument that was given and is not the empty text
NonEmpty(arg) == arg \notin {<<>>, <<"">>}

\* C23: a POST carries the header Authorization: Api-Token <token> if and
\* only if the exporter was made with an endpoint and a token that are both
\* non-empty; a token without an endpoint is not sent, and the POSTs then
\* go to http://localhost:14499/metrics/ingest.
C23_TokenOnlyWithEndpoint ==
    \A i \in 1..Len(posts) :
        /\ "Authorization" \in Keys(posts[i].headers)
               <=> (NonEmpty(endpoint_url) /\ NonEmpty(api_token))
        /\ "Authorization" \in Keys(posts[i].headers) =>
               ValueOf(posts[i].headers, "Authorization")
                   = <<"Api-Token ", api_token[1]>>
        /\ posts[i].url = IF NonEmpty(endpoint_url) THEN endpoint_url[1]
                          ELSE "http://localhost:14499/metrics/ingest"

C23_Witness ==
    /\ NonEmpty(api_token)
    /\ endpoint_url = <<"">>
    /\ Len(posts) = 2
    /\ "Authorization" \notin Keys(posts[2].headers)
    /\ posts[2].url = "http://localhost:14499/metrics/ingest"

-----------------------------------------------------------------------------
(* _get_histogram_min and _get_histogram_max as functions of the data      *)
(* point (SpecHistogram)                                                    *)

BucketCounts == {0, 1, 4}
ExplicitBounds == {-5, 0, 5}
HistogramSums == {Int2Num(-12), Int2Num(0), Rat(44, 5), Int2Num(87), NaN}

\* min and max of a data point: not set, as the SDK leaves them when it
\* records none, and set
HistogramMinMax ==
    { <<PyNone, PyNone>>, <<PosInf, NegInf>>, <<Int2Num(-3), Int2Num(12)>>,
      <<Int2Num(-3), NegInf>> }

\* data points with one bound less than buckets, the bounds in any order
HistogramDataPoints ==
    UNION { { HistogramDataPoint(c, b, sm, mm[1], mm[2]) :
                  b \in [1..(IF Len(c) = 0 THEN 0 ELSE Len(c) - 1)
                            -> ExplicitBounds],
                  sm \in HistogramSums, mm \in HistogramMinMax } :
            c \in SeqsUpTo(BucketCounts, MaxBuckets) }

InitHistogram ==
    /\ histogram_point \in HistogramDataPoints
    /\ estimates = <<>>
    /\ PreferenceIdle
    /\ DimensionIdle
    /\ SingleRequestIdle
    /\ TimestampIdle
    /\ ExporterIdle
    /\ SerializerIdle
    /\ KeyIdle

\* the two estimates, as _histogram_to_dynatrace_metric asks for them
EstimateMinMax ==
    /\ estimates = <<>>
    /\ estimates' = <<[min |-> _get_histogram_min(histogram_point),
                       max |-> _get_histogram_max(histogram_point)]>>
    /\ UNCHANGED <<histogram_point, preferenceVars, dimensionVars,
                   singleRequestVars, timestampVars, exporterVars,
                   serializerVars, keyVars>>

NextHistogram == EstimateMinMax

SpecHistogram == InitHistogram /\ [][NextHistogram]_vars

-----------------------------------------------------------------------------
(* Properties of the estimates (SpecHistogram) *)

\* sum / count
Mean(h) == IF h.sum.kind = "num" THEN Rat(h.sum.n, h.sum.d * h.count)
           ELSE h.sum

Greater(a, b) == IF Less(a, b) THEN b ELSE a
Lesser(a, b) == IF Less(b, a) THEN b ELSE a

\* the buckets of h, counted from 1, that are not empty
NonZeroBuckets(h) ==
    {i \in 1..Len(h.bucket_counts) : h.bucket_counts[i] # 0}

\* bucket i, counted from 1, lies between the explicit bounds i - 1 and i
LowerBound(h, i) == Int2Num(h.explicit_bounds[i - 1])
UpperBound(h, i) == Int2Num(h.explicit_bounds[i])

AtMost(a, b) == a.kind # "nan" /\ b.kind # "nan" /\ (a = b \/ Less(a, b))

\* neither min nor max of the data point is a finite number
WithoutMinMax(h) == h.min.kind # "num" /\ h.max.kind # "num"

\* C26: for a data point without finite min and max and with count > 0 the
\* estimates lie on their sides of the mean:
\* estimated min <= sum/count <= estimated max.
C26_EstimatesAroundMean ==
    (/\ estimates # <<>>
     /\ WithoutMinMax(histogram_point)
     /\ histogram_point.count > 0) =>
        /\ AtMost(estimates[1].min, Mean(histogram_point))
        /\ AtMost(Mean(histogram_point), estimates[1].max)

\* the bounds in non-decreasing order, one less than the buckets
BoundsInOrder(h) ==
    /\ Len(h.explicit_bounds) = Len(h.bucket_counts) - 1
    /\ \A i \in 1..(Len(h.explicit_bounds) - 1) :
           h.explicit_bounds[i] <= h.explicit_bounds[i + 1]

\* C30, as the claim states it: for a data point without finite min and
\* max whose bounds are in non-decreasing order and one less than its
\* buckets, estimated min <= estimated max, whatever the bucket counts and
\* the sum.
C30_MinAtMostMax ==
    (/\ estimates # <<>>
     /\ WithoutMinMax(histogram_point)
     /\ BoundsInOrder(histogram_point)) =>
        AtMost(estimates[1].min, estimates[1].max)

\* C30, amended: the same whatever the bucket counts and whatever number
\* the sum is, a sum that is NaN left aside.
C30_MinAtMostMaxOfNumbers ==
    (/\ estimates # <<>>
     /\ WithoutMinMax(histogram_point)
     /\ BoundsInOrder(histogram_point)
     /\ histogram_point.sum # NaN) =>
        AtMost(estimates[1].min, estimates[1].max)

C30_Witness ==
    /\ estimates # <<>>
    /\ histogram_point.bucket_counts = <<0, 1, 4>>
    /\ histogram_point.explicit_bounds = <<0, 5>>
    /\ histogram_point.sum = Int2Num(-12)
    /\ histogram_point.min = PyNone
    /\ estimates[1] = [min |-> Int2Num(0), max |-> Int2Num(5)]

-----------------------------------------------------------------------------
(* The delta flag of a serializer (SpecSerializer) *)

\* the form the flag gives to the line of a sum
SumForm(flag) == IF flag = "True" THEN " count,delta=" ELSE " count,"

\* C27: the delta flag of a serializer is determined by its first
\* serialize_records call, from the meter provider as it is then, and
\* never again: the sums of every call are written in the form chosen by
\* the first, whatever becomes of the provider between the calls.
C27_FlagDeterminedOnce ==
    /\ [](\A n \in 1..Len(serialized) :
              EmittingRecords[n].aggregator.type = "SumAggregator" =>
                  serialized[n].form = SumForm(_is_delta_export))
    /\ [][IF _is_delta_export # "None"
           THEN _is_delta_export' = _is_delta_export
           ELSE _is_delta_export' \in
                    {"None", IF stateful THEN "False" ELSE "True"}]_vars

C27_Witness ==
    /\ _is_delta_export = "True"
    /\ stateful
    /\ Len(serialized) = 1
    /\ records[1].aggregator.type = "SumAggregator"
    /\ serialized[1].form = " count,delta="

-----------------------------------------------------------------------------
(* Export calls one after another (SpecConfigured) *)

\* the lines the input of the call gives, point by point
OwnLines ==
    Flatten([i \in 1..Len(InputPairs) |-> LinesAlone(InputPairs[i])])

-----------------------------------------------------------------------------
(* The temporality preferred for each kind of instrument, and what the     *)
(* factory makes of a metric read with it (SpecPreference)                  *)

InstrumentKinds ==
    {"Counter", "UpDownCounter", "Histogram", "ObservableCounter",
     "ObservableUpDownCounter", "ObservableGauge"}

\* DELTA for every kind
_DYNATRACE_TEMPORALITY_PREFERENCE_all_delta ==
    [kind \in InstrumentKinds |-> "DELTA"]

_DYNATRACE_TEMPORALITY_PREFERENCE ==
    [kind \in InstrumentKinds |->
        IF kind \in {"Counter", "Histogram", "ObservableCounter"}
        THEN "DELTA"
        ELSE "CUMULATIVE"]

Temporalities == {"DELTA", "CUMULATIVE"}

NumberDataPoints ==
    { NumberDataPoint(0, "int"), NumberDataPoint(7, "int"),
      NumberDataPoint(-7, "float"), NumberDataPoint(7, "float") }

\* the data points an instrument of the kind gives
DataPointsOf(kind) ==
    IF kind = "Histogram"
    THEN { HistogramWithMinMax, HistogramWithoutMinMax,
           HistogramDataPoint(<<4>>, <<>>, Rat(44, 5), PosInf, NegInf),
           HistogramDataPoint(<<0, 0>>, <<5>>, Int2Num(0), PosInf, NegInf) }
    ELSE NumberDataPoints

\* the data of the metric that the SDK reads from an instrument of the
\* kind: a monotonic sum from the counters, a non-monotonic sum from the
\* up-down counters, a histogram, a gauge
DataOf(kind, temporality, point) ==
    IF kind \in {"Counter", "ObservableCounter"}
    THEN Sum(TRUE, temporality, <<point>>)
    ELSE IF kind \in {"UpDownCounter", "ObservableUpDownCounter"}
    THEN Sum(FALSE, temporality, <<point>>)
    ELSE IF kind = "Histogram" THEN Histogram(temporality, <<point>>)
    ELSE Gauge(<<point>>)

InitPreference ==
    /\ instrument \in InstrumentKinds
    /\ collected = <<>>
    /\ created = <<>>
    /\ HistogramIdle
    /\ DimensionIdle
    /\ SingleRequestIdle
    /\ TimestampIdle
    /\ ExporterIdle
    /\ SerializerIdle
    /\ KeyIdle

\* the reader hands a metric of the instrument over, in the temporality
\* it was set up with
Collect(temporality, point) ==
    /\ collected = <<>>
    /\ collected' = <<[temporality |-> temporality,
                       metric |-> Metric(ValidName,
                                         DataOf(instrument, temporality,
                                                point))]>>
    /\ UNCHANGED <<instrument, created, histogramVars, dimensionVars,
                   singleRequestVars, timestampVars, exporterVars,
                   serializerVars, keyVars>>

\* create_metric(metric, data_point), as export calls it
CreateMetric ==
    /\ collected # <<>>
    /\ created = <<>>
    /\ created' = <<create_metric(collected[1].metric,
                                  collected[1].metric.data.data_points[1])>>
    /\ UNCHANGED <<instrument, collected, histogramVars, dimensionVars,
                   singleRequestVars, timestampVars, exporterVars,
                   serializerVars, keyVars>>

NextPreference ==
    \/ \E t \in Temporalities, p \in DataPointsOf(instrument) : Collect(t, p)
    \/ CreateMetric

SpecPreference == InitPreference /\ [][NextPreference]_vars

\* C29: a metric reported in the temporality that the exporter declares
\* as preferred for its kind of instrument is not rejected by the factory:
\* a counter gives a delta counter, an up-down counter and a gauge give a
\* gauge, a histogram gives a summary.
C29_PreferredTemporalityAccepted ==
    (/\ created # <<>>
     /\ collected[1].temporality = _DYNATRACE_TEMPORALITY_PREFERENCE[instrument])
        => /\ created[1] # NoMetric
           /\ created[1].create \in
                  IF instrument \in {"Counter", "ObservableCounter"}
                  THEN {"create_int_counter_delta",
                        "create_float_counter_delta"}
                  ELSE IF instrument = "Histogram"
                  THEN {"create_float_summary"}
                  ELSE {"create_int_gauge", "create_float_gauge"}

C29_Witness ==
    /\ instrument = "ObservableUpDownCounter"
    /\ created # <<>>
    /\ collected[1].temporality = "CUMULATIVE"
    /\ created[1].create = "create_float_gauge"

====
